---- MODULE Spec2Model ----
(***************************************************************************)
(* FreeRTOS-Debug: the producer / mailbox / worker pipeline of             *)
(* src/FreeRTOS-Debug.c and the DEBUG_MESSAGE macro of its header          *)
(* (src/unnamed/part_001).                                                 *)
(*                                                                         *)
(* Memory is modelled as a list of allocated blocks; a pointer is a block  *)
(* and an offset into it.  A queue item is a debug_t copied by value, as   *)
(* xQueueSend / xQueueReceive copy it.  Fields named g_* and the variables *)
(* listed under "history" record what happened and are read by no action.  *)
(***************************************************************************)
EXTENDS Integers, Sequences, FiniteSets, TLC

(* ------------------------------ bounds --------------------------------- *)

\* Largest queue_length the application passes to debugInitialise.
MaxQueueLength == 2

\* Largest queue_length in the single-producer burst scenario.
MaxBurstLength == 3

\* The longest queue of the level scenarios, and the DEBUG_MESSAGE calls
\* without effect that are counted there.
LevelQueueLength == 4
MaxFiltered == 3

\* The longest formatted text of the allocation scenarios.
MaxTextLen == 2

\* The calls of debugReset the application makes.
MaxResets == 1

\* The calls of debugInitialise an application in error makes.
MaxInits == 2

(* ------------------------- program constants --------------------------- *)

DEBUG_OFF == 0
DEBUG_MINIMAL == 1
DEBUG_ERRORS == 2
DEBUG_WARNINGS == 3
DEBUG_FULL == 4

DEBUG_TYPE_INFO == "I"
DEBUG_TYPE_WARNING == "W"
DEBUG_TYPE_ERROR == "E"
\* A debug_type that is none of the three.
InvalidType == "X"

\* The string terminator, and a byte whose value the program never set.
NUL == "\\0"
GARBAGE == "?"

\* char full_message[] = "Queue Full!\n";
full_message == <<"Q", "u", "e", "u", "e", " ", "F", "u", "l", "l", "!", "\n", NUL>>

\* sizeof(full_message)
SizeofFullMessage == Len(full_message)

\* The handle xTaskCreate stores in debug_task, and the value of a handle
\* that was never assigned.
DebugTask == "debug"
NoTask == "none"
\* In place of a task: the fault handler holds the processor for good.
Fault == "fault"

\* pcTaskGetName: "debug" is the name given to xTaskCreate; an application
\* task is named by its handle.
pcTaskGetName(handle) ==
    IF handle = DebugTask THEN <<"d", "e", "b", "u", "g">> ELSE <<handle>>

NULL == [block |-> 0, off |-> 0]

(* ------------------------------- state --------------------------------- *)

VARIABLES
    app,            \* the application: its tasks, queue lengths, messages
    DEBUG_LEVEL,    \* the build's -DDEBUG_LEVEL
    initialised,    \* debugInitialise has run
    queue_length,   \* capacity given to xQueueCreate
    debug_queue,    \* the items of the queue, head first
    debug_task,     \* static TaskHandle_t debug_task
    queue_full,     \* static debug_t queue_full
    heap,           \* the blocks pvPortMalloc has handed out
    heapCorrupt,    \* vPortFree was given a pointer that is no live block's start
    pc,             \* where each producer is in DEBUG_MESSAGE
    debug,          \* each producer's local debug_t
    spaces,         \* the value each producer's switch read
    wpc,            \* where the Worker is in debug_handler
    debug_next,     \* the Worker's local debug_t
    message_ptr,    \* the Worker's local message_ptr
    line,           \* history: the line the Worker sent last
    rendered,       \* history: lines the Worker has sent
    dropped,        \* history: the blocks of Records debug_send_message dropped
    attempted,      \* history: the Records passed to debug_send_message
    seen,           \* history: inserts and receives counted at each switch
    inserted,       \* history: successful xQueueSend calls
    initCalls,      \* history: calls of global_init_func
    frozenBy,       \* the task that suspended the scheduler (vTaskSuspendAll)
    suspended,      \* the tasks suspended by vTaskSuspend(NULL)
    resetCalls,     \* history: the tasks in which global_reset_func was called
    asked,          \* history: who called debugFreeze, debugFreezeTask, debugReset
    filtered,       \* history: DEBUG_MESSAGE calls that did nothing
    lastCheck,      \* history: the last call of debug_check_level
    global_funcs,   \* the debugInitialise call whose callbacks are stored (0: none)
    created,        \* the queues and debug tasks created so far
    orphaned        \* the items of queues whose handle was overwritten

vars == <<app, DEBUG_LEVEL, initialised, queue_length, debug_queue, debug_task,
          queue_full, heap, heapCorrupt, pc, debug, spaces, wpc, debug_next,
          message_ptr, line, rendered, dropped, attempted, seen, inserted,
          initCalls, frozenBy, suspended, resetCalls, asked, filtered,
          lastCheck, global_funcs, created, orphaned>>

\* What the control operations change, what only the level check changes,
\* and the rest.
control == <<frozenBy, suspended, resetCalls, asked>>
checks == <<filtered, lastCheck>>
lifecycle == <<global_funcs, created, orphaned>>
program == <<lifecycle, app, DEBUG_LEVEL, initialised, queue_length, debug_queue,
             debug_task, queue_full, heap, heapCorrupt, pc, debug, spaces, wpc,
             debug_next, message_ptr, line, rendered, dropped, attempted, seen,
             inserted, initCalls>>

\* Task t is scheduled: it is not suspended, and the scheduler is not
\* suspended by another task.
Running(t) == t \notin suspended /\ frozenBy \in {NoTask, t}

Tasks == {"1", "2"}

Types == {DEBUG_TYPE_INFO, DEBUG_TYPE_WARNING, DEBUG_TYPE_ERROR}

\* A formatted text of n characters.
TextOfLen(n) == [i \in 1..n |-> IF i = 1 THEN "a" ELSE "b"]

\* What the application's tasks log: task "1" warnings of one character,
\* task "2" errors of two, and both information.
MessagesOf(p) ==
    IF p = "1" THEN {<<DEBUG_TYPE_WARNING, TextOfLen(1)>>, <<DEBUG_TYPE_INFO, TextOfLen(1)>>}
    ELSE {<<DEBUG_TYPE_ERROR, TextOfLen(2)>>, <<DEBUG_TYPE_INFO, TextOfLen(2)>>}

NoRecord == [type |-> NUL, task_handle |-> NoTask, message |-> NULL]

NoItem == [rec |-> NoRecord, g_by |-> NoTask, g_seq |-> 0, g_full |-> FALSE]

NoCheck == [type |-> NUL, result |-> FALSE]

NoneCreated == [queues |-> 0, tasks |-> 0]

NoneAsked == [freeze |-> {}, freezeTask |-> {}, reset |-> <<>>]

NoLine == [g_seq |-> 0, g_full |-> FALSE, rec |-> NoRecord, text |-> <<>>, chars |-> <<>>]

\* Records the Worker has taken from the queue.
received == rendered + (IF wpc = "render" THEN 1 ELSE 0)

(* ------------------------------ the heap ------------------------------- *)

\* What an allocated and never written block of the given size may hold:
\* a terminator in its first byte, one after two bytes, or none at all.
UninitFills(size) ==
    { [i \in 1..size |-> IF i = k THEN NUL ELSE GARBAGE] : k \in {1, 3, size + 1} }

\* Whether pvPortMalloc(size) returns a block: the application's heap may be
\* exhausted, and a request of zero bytes may be answered with NULL.
AllocOutcomes(size) == IF size = 0 THEN {TRUE, FALSE} ELSE app.alloc

\* An access through a NULL pointer is undefined: the access goes to address
\* zero and the program runs on, or the processor faults.
NullAccessFaults == {FALSE, TRUE}

\* pvPortMalloc(size): a fresh block.
Block(size, bytes, over) ==
    [size |-> size, bytes |-> bytes, over |-> over, live |-> TRUE]

\* sprintf(buffer, text): the text and its terminator, written from offset 0
\* into a block of the given size; what does not fit is written past its end.
SprintfBytes(size, text) ==
    LET all == text \o <<NUL>>
    IN  [i \in 1..size |-> IF i <= Len(all) THEN all[i] ELSE GARBAGE]

SprintfOver(size, text) ==
    IF Len(text) + 1 > size THEN Len(text) + 1 - size ELSE 0

\* snprintf(NULL, 0, ...): the length of the formatted text.
Snprintf(text) == Len(text)

\* The size DEBUG_MESSAGE asks pvPortMalloc for.
MessageAllocSize(text) == Snprintf(text)

(* -------------------------- Level Filter ------------------------------- *)

\* Mutant: every type passes.
debug_check_level_AcceptAll(debug_type) == TRUE

\* Mutant: warnings pass one level too early.
debug_check_level_OffByOne(debug_type) ==
    CASE debug_type = DEBUG_TYPE_INFO /\ DEBUG_LEVEL >= DEBUG_FULL -> TRUE
      [] debug_type = DEBUG_TYPE_WARNING /\ DEBUG_LEVEL >= DEBUG_ERRORS -> TRUE
      [] debug_type = DEBUG_TYPE_ERROR -> TRUE
      [] OTHER -> FALSE

debug_check_level(debug_type) ==
    CASE debug_type = DEBUG_TYPE_INFO /\ DEBUG_LEVEL >= DEBUG_FULL -> TRUE
      [] debug_type = DEBUG_TYPE_WARNING /\ DEBUG_LEVEL >= DEBUG_WARNINGS -> TRUE
      [] debug_type = DEBUG_TYPE_ERROR -> TRUE
      [] OTHER -> FALSE

(* ------------------------------ the queue ------------------------------ *)

uxQueueSpacesAvailable == queue_length - Len(debug_queue)

\* xQueueSend(debug_queue, &item, 0) succeeds when a slot is free.
QueueHasSpace == Len(debug_queue) < queue_length

\* An item as copied into the queue, with who inserted it and when.
Item(rec, p, isFull) ==
    [rec |-> rec, g_by |-> p, g_seq |-> inserted + 1, g_full |-> isFull]

\* Mutant: the insert waits (portMAX_DELAY) for a free slot.
xQueueSend_Blocking(rec, p, isFull) ==
    /\ QueueHasSpace
    /\ debug_queue' = Append(debug_queue, Item(rec, p, isFull))
    /\ inserted' = inserted + 1

xQueueSend(rec, p, isFull) ==
    IF QueueHasSpace
    THEN /\ debug_queue' = Append(debug_queue, Item(rec, p, isFull))
         /\ inserted' = inserted + 1
    ELSE /\ UNCHANGED <<debug_queue, inserted>>

(* ------------------------- initial states ------------------------------ *)

InitWith(a, levels) ==
    /\ app = a
    /\ DEBUG_LEVEL \in levels
    /\ initialised = FALSE
    /\ queue_length = 0
    /\ debug_queue = <<>>
    /\ debug_task = NoTask
    /\ queue_full = NoRecord
    /\ heap = <<>>
    /\ heapCorrupt = FALSE
    /\ pc = [p \in Tasks |-> "idle"]
    /\ debug = [p \in Tasks |-> NoRecord]
    /\ spaces = [p \in Tasks |-> 0]
    /\ wpc = "none"
    /\ debug_next = NoItem
    /\ message_ptr = NULL
    /\ line = NoLine
    /\ rendered = 0
    /\ dropped = {}
    /\ attempted = <<>>
    /\ seen = [p \in Tasks |-> <<0, 0>>]
    /\ inserted = 0
    /\ initCalls = 0
    /\ frozenBy = NoTask
    /\ suspended = {}
    /\ resetCalls = <<>>
    /\ asked = NoneAsked
    /\ filtered = 0
    /\ lastCheck = NoCheck
    /\ global_funcs = 0
    /\ created = NoneCreated
    /\ orphaned = <<>>

\* Two producer tasks and the Worker, freely interleaved, at a level that
\* filters information out.
Init ==
    InitWith([tasks |-> Tasks, lengths |-> 2..MaxQueueLength,
              calls |-> MaxQueueLength + 1, countFiltered |-> 0,
              alloc |-> {TRUE}, inits |-> 1,
              messages |-> [p \in Tasks |-> MessagesOf(p)]],
             {DEBUG_WARNINGS})

\* One producer task, which logs what both tasks above log, up to
\* queue_length + 1 messages.
InitBurst ==
    InitWith([tasks |-> {"1"}, lengths |-> 2..MaxBurstLength,
              calls |-> MaxBurstLength + 1, countFiltered |-> 0,
              alloc |-> {TRUE}, inits |-> 1,
              messages |-> [p \in Tasks |-> MessagesOf("1") \cup MessagesOf("2")]],
             {DEBUG_WARNINGS})

\* One producer task that logs every type, and a type that is none, in a
\* build of any level.
InitLevels ==
    InitWith([tasks |-> {"1"}, lengths |-> {MaxQueueLength, LevelQueueLength},
              calls |-> MaxQueueLength, countFiltered |-> MaxFiltered,
              alloc |-> {TRUE}, inits |-> 1,
              messages |-> [p \in Tasks |->
                  {<<t, TextOfLen(1)>> : t \in Types \cup {InvalidType}}]],
             DEBUG_OFF..DEBUG_FULL)

\* One producer task that logs texts of every length from 0, with a heap
\* that may be exhausted at any allocation.
InitAlloc ==
    InitWith([tasks |-> {"1"}, lengths |-> {MaxQueueLength},
              calls |-> MaxQueueLength + 1, countFiltered |-> 0,
              alloc |-> {TRUE, FALSE}, inits |-> 1,
              messages |-> [p \in Tasks |->
                  {<<DEBUG_TYPE_ERROR, TextOfLen(n)>> : n \in 0..MaxTextLen}
                      \cup {<<DEBUG_TYPE_INFO, TextOfLen(1)>>}]],
             {DEBUG_WARNINGS})

\* One producer task in an application that calls debugInitialise again.
InitReinit ==
    InitWith([tasks |-> {"1"}, lengths |-> {MaxQueueLength},
              calls |-> MaxQueueLength, countFiltered |-> 0,
              alloc |-> {TRUE}, inits |-> MaxInits,
              messages |-> [p \in Tasks |-> MessagesOf(p)]],
             {DEBUG_WARNINGS})

\* Two producer tasks that log one kind of message each, into a queue of the
\* greatest length.
InitRace ==
    InitWith([tasks |-> Tasks, lengths |-> {MaxQueueLength},
              calls |-> MaxQueueLength + 1, countFiltered |-> 0,
              alloc |-> {TRUE}, inits |-> 1,
              messages |-> [p \in Tasks |->
                  {<<DEBUG_TYPE_ERROR, TextOfLen(1)>>, <<DEBUG_TYPE_INFO, TextOfLen(1)>>}]],
             {DEBUG_WARNINGS})

\* Two producer tasks that also call the control operations, in a build of
\* any level.
InitControl ==
    InitWith([tasks |-> Tasks, lengths |-> {MaxQueueLength},
              calls |-> MaxQueueLength, countFiltered |-> 0,
              alloc |-> {TRUE}, inits |-> 1,
              messages |-> [p \in Tasks |-> MessagesOf(p)]],
             DEBUG_OFF..DEBUG_FULL)

(* --------------------------- debugInitialise --------------------------- *)

\* Mutant: the sentinel is given the type of an information message.
QueueFullInit_Info(task) ==
    [type |-> DEBUG_TYPE_INFO, task_handle |-> task, message |-> NULL]

\* Mutant: queue_full.task_handle is never assigned.
QueueFullInit_Unset(task) ==
    [type |-> DEBUG_TYPE_ERROR, task_handle |-> NoTask, message |-> NULL]

\* queue_full as debugInitialise leaves it: message is not assigned.
QueueFullInit(task) ==
    [type |-> DEBUG_TYPE_ERROR, task_handle |-> task, message |-> NULL]

\* debugInitialise(queue_length, init_func, send_func, reset_func).  Nothing
\* in it tells a repeated call from the first: the callbacks and the handles
\* are assigned again.  A repeated call is taken to come while the debug task
\* waits in xQueueReceive: that task stays blocked on the queue it was given,
\* which nothing refers to any more, and the task created now is the one
\* that runs debug_handler from here on.
debugInitialise(length) ==
    /\ global_funcs < app.inits
    /\ initialised => (DEBUG_LEVEL >= DEBUG_ERRORS => wpc = "wait")
    /\ initialised' = TRUE
    /\ global_funcs' = global_funcs + 1
    /\ IF DEBUG_LEVEL >= DEBUG_ERRORS
       THEN /\ queue_length' = length
            /\ debug_queue' = <<>>
            /\ orphaned' = orphaned \o debug_queue
            /\ created' = [queues |-> created.queues + 1, tasks |-> created.tasks + 1]
            /\ debug_task' = DebugTask
            /\ wpc' = "start"
            /\ queue_full' = [QueueFullInit(DebugTask) EXCEPT !.message = queue_full.message]
       ELSE UNCHANGED <<queue_length, debug_queue, orphaned, created, debug_task,
                        wpc, queue_full>>
    /\ UNCHANGED <<control, checks, app, DEBUG_LEVEL, heap, heapCorrupt, pc, debug, spaces,
                   debug_next, message_ptr, line, rendered, dropped, attempted,
                   seen, inserted, initCalls>>

(* ----------------------------- DEBUG_MESSAGE --------------------------- *)

\* The macro where it expands to nothing (below DEBUG_ERRORS) or with a type
\* debug_check_level rejects: nothing happens.
DebugMessageFiltered(p, type) ==
    /\ pc[p] = "idle" /\ Running(p)
    /\ ~(DEBUG_LEVEL >= DEBUG_ERRORS /\ debug_check_level(type))
    /\ filtered' = IF filtered < app.countFiltered THEN filtered + 1 ELSE filtered
    /\ lastCheck' = IF app.countFiltered > 0 /\ DEBUG_LEVEL >= DEBUG_ERRORS
                    THEN [type |-> type, result |-> FALSE] ELSE lastCheck
    /\ UNCHANGED <<control, program>>

\* The macro up to the call of debug_send_message: the level check,
\* pvPortMalloc(snprintf(NULL, 0, ...)) and sprintf into the block.
DebugMessage(p, type, text) ==
    /\ initialised /\ DEBUG_LEVEL >= DEBUG_ERRORS
    /\ pc[p] = "idle" /\ Running(p)
    /\ Len(attempted) < app.calls
    /\ debug_check_level(type)
    /\ LET size == MessageAllocSize(text)
       IN  \E ok \in AllocOutcomes(size) :
           LET ptr == IF ok THEN [block |-> Len(heap) + 1, off |-> 0] ELSE NULL
               rec == [type |-> type, task_handle |-> NoTask, message |-> ptr]
           IN  /\ heap' = IF ok
                          THEN Append(heap, Block(size, SprintfBytes(size, text),
                                                  SprintfOver(size, text)))
                          ELSE heap
               /\ \E fault \in (IF ok THEN {FALSE} ELSE NullAccessFaults) :
                      frozenBy' = IF fault THEN Fault ELSE frozenBy
               /\ debug' = [debug EXCEPT ![p] = rec]
               /\ attempted' = Append(attempted, [rec |-> rec, g_by |-> p])
    /\ pc' = [pc EXCEPT ![p] = "switch"]
    /\ lastCheck' = IF app.countFiltered > 0
                    THEN [type |-> type, result |-> TRUE] ELSE lastCheck
    /\ UNCHANGED <<suspended, resetCalls, asked, filtered, lifecycle, app, DEBUG_LEVEL,
                   initialised, queue_length, debug_queue,
                   debug_task, queue_full, heapCorrupt, spaces, wpc, debug_next,
                   message_ptr, line, rendered, dropped, seen, inserted,
                   initCalls>>

(* --------------------------- debug_send_message ------------------------ *)

\* The return from debug_send_message and the end of the macro's block: the
\* caller's locals are gone.
Return(p) ==
    /\ pc' = [pc EXCEPT ![p] = "idle"]
    /\ debug' = [debug EXCEPT ![p] = NoRecord]
    /\ spaces' = [spaces EXCEPT ![p] = 0]
    /\ seen' = [seen EXCEPT ![p] = <<0, 0>>]

\* Mutant: case 0 has no break and falls through into case 1.
SwitchCase_FallThrough(n) ==
    IF n <= 1 THEN "case1" ELSE "default"

\* Mutant: there is no case 1; the last slot is filled like any other.
SwitchCase_NoReserve(n) ==
    IF n = 0 THEN "case0" ELSE "default"

\* Mutant: the sentinel is sent when two slots are left, too.
SwitchCase_TwoLeft(n) ==
    CASE n = 0 -> "case0"
      [] n \in {1, 2} -> "case1"
      [] OTHER -> "default"

\* The branch the switch takes for a number of free slots.
SwitchCase(n) ==
    CASE n = 0 -> "case0"
      [] n = 1 -> "case1"
      [] OTHER -> "default"

\* debug.task_handle as case 1 and default assign it: debug_task, and
\* xTaskGetCurrentTaskHandle().
TaskHandleFor(branch, p) ==
    IF branch = "case1" THEN debug_task ELSE p

\* switch(uxQueueSpacesAvailable(debug_queue)), and the assignment to
\* debug.task_handle that opens the taken branch.  case 0 returns.
SendSwitch(p) ==
    /\ pc[p] = "switch" /\ Running(p)
    /\ LET n == uxQueueSpacesAvailable
           branch == SwitchCase(n)
       IN  /\ IF branch = "case0"
              THEN Return(p)
              ELSE /\ spaces' = [spaces EXCEPT ![p] = n]
                   /\ debug' = [debug EXCEPT ![p].task_handle = TaskHandleFor(branch, p)]
                   /\ pc' = [pc EXCEPT ![p] = IF branch = "case1" THEN "full_alloc" ELSE "send"]
                   /\ seen' = [seen EXCEPT ![p] = <<inserted, received>>]
           /\ dropped' = IF branch = "default" THEN dropped
                         ELSE dropped \cup {debug[p].message.block}
    /\ UNCHANGED <<control, checks, lifecycle, app, DEBUG_LEVEL, initialised, queue_length, debug_queue,
                   debug_task, queue_full, heap, heapCorrupt, wpc, debug_next,
                   message_ptr, line, rendered, attempted, inserted, initCalls>>

\* case 1: queue_full.message = pvPortMalloc(sizeof(full_message)).  The
\* block is not written: it holds what the memory held.
SendFullAlloc(p) ==
    /\ pc[p] = "full_alloc" /\ Running(p)
    /\ \E ok \in AllocOutcomes(SizeofFullMessage) :
          IF ok
          THEN /\ \E fill \in UninitFills(SizeofFullMessage) :
                     heap' = Append(heap, Block(SizeofFullMessage, fill, 0))
               /\ queue_full' = [queue_full EXCEPT
                                    !.message = [block |-> Len(heap) + 1, off |-> 0]]
          ELSE /\ heap' = heap
               /\ queue_full' = [queue_full EXCEPT !.message = NULL]
    /\ pc' = [pc EXCEPT ![p] = "full_send"]
    /\ UNCHANGED <<control, checks, lifecycle, app, DEBUG_LEVEL, initialised, queue_length, debug_queue,
                   debug_task, heapCorrupt, debug, spaces, wpc, debug_next,
                   message_ptr, line, rendered, dropped, attempted, seen,
                   inserted, initCalls>>

\* case 1: xQueueSend(debug_queue, &queue_full, 0); break.
SendFullSend(p) ==
    /\ pc[p] = "full_send" /\ Running(p)
    /\ xQueueSend(queue_full, p, TRUE)
    /\ Return(p)
    /\ UNCHANGED <<control, checks, lifecycle, app, DEBUG_LEVEL, initialised, queue_length, debug_task,
                   queue_full, heap, heapCorrupt, wpc,
                   debug_next, message_ptr, line, rendered, dropped, attempted,
                   initCalls>>

\* default: xQueueSend(debug_queue, &debug, 0); break.
SendDefault(p) ==
    /\ pc[p] = "send" /\ Running(p)
    /\ xQueueSend(debug[p], p, FALSE)
    /\ Return(p)
    /\ UNCHANGED <<control, checks, lifecycle, app, DEBUG_LEVEL, initialised, queue_length, debug_task,
                   queue_full, heap, heapCorrupt, wpc,
                   debug_next, message_ptr, line, rendered, dropped, attempted,
                   initCalls>>

(* ------------------------------ debug_handler -------------------------- *)

\* Mutant: the hardware is initialised by debugInitialise's caller; the task
\* goes straight into its loop.
WorkerStart_NoInit ==
    /\ wpc = "start" /\ Running(DebugTask)
    /\ wpc' = "wait"
    /\ UNCHANGED <<control, checks, lifecycle, app, DEBUG_LEVEL, initialised, queue_length,
                   debug_queue, debug_task, queue_full, heap, heapCorrupt, pc,
                   debug, spaces, debug_next, message_ptr, line, rendered,
                   dropped, attempted, seen, inserted, initCalls>>

\* global_init_func(), once, before the loop.
WorkerStart ==
    /\ wpc = "start" /\ Running(DebugTask)
    /\ initCalls' = initCalls + 1
    /\ wpc' = "wait"
    /\ UNCHANGED <<control, checks, lifecycle, app, DEBUG_LEVEL, initialised, queue_length, debug_queue,
                   debug_task, queue_full, heap, heapCorrupt, pc, debug, spaces,
                   debug_next, message_ptr, line, rendered, dropped, attempted,
                   seen, inserted>>

\* Mutant: the Worker is handed the newest item.
QueueFront_Newest == debug_queue[Len(debug_queue)]

\* The item xQueueReceive takes.
QueueFront == Head(debug_queue)

\* xQueueReceive(debug_queue, &debug_next, portMAX_DELAY): blocks while the
\* queue is empty.
WorkerReceive ==
    /\ wpc = "wait" /\ Running(DebugTask)
    /\ debug_queue # <<>>
    /\ debug_next' = QueueFront
    /\ debug_queue' = Tail(debug_queue)
    /\ wpc' = "render"
    /\ UNCHANGED <<control, checks, lifecycle, app, DEBUG_LEVEL, initialised, queue_length, debug_task,
                   queue_full, heap, heapCorrupt, pc, debug, spaces,
                   message_ptr, line, rendered, dropped, attempted, seen,
                   inserted, initCalls>>

\* The bytes of a block before its first terminator (all of them when it
\* holds none).
RECURSIVE UpToNul(_)
UpToNul(bytes) ==
    IF bytes = <<>> \/ Head(bytes) = NUL THEN <<>>
    ELSE <<Head(bytes)>> \o UpToNul(Tail(bytes))

HasNul(bytes) == \E i \in 1..Len(bytes) : bytes[i] = NUL

\* What while(*message_ptr != '\0') reads past the end of a block that holds
\* no terminator: the next byte is a terminator, or the scan runs on through
\* bytes the program does not own (shown as one GARBAGE character).
OverrunOutcomes == {<<>>, <<GARBAGE>>}

\* The characters the message loop sends for a block: its bytes up to the
\* first terminator, and past the end of the block when it holds none.
ScanOutcomes(block) ==
    IF HasNul(block.bytes) THEN {UpToNul(block.bytes)}
    ELSE {block.bytes \o extra : extra \in OverrunOutcomes}

\* The characters of one line, for the text the message loop read.
LineChars(rec, text) ==
    <<rec.type, " ", "-", " ">> \o pcTaskGetName(rec.task_handle)
        \o <<" ", "-", " ">> \o text \o <<"\n">>

\* message_ptr after the message loop: it was advanced once per character.
ScanEnd(start, text) == [block |-> start.block, off |-> start.off + Len(text)]

\* One pass of the loop body from the first global_send_func call to the
\* last: the whole line.
WorkerRender ==
    /\ wpc = "render" /\ Running(DebugTask)
    /\ LET start == debug_next.rec.message
           owned == start.block \in 1..Len(heap)
       IN  \E fault \in (IF owned THEN {FALSE} ELSE NullAccessFaults) :
           IF fault
           THEN /\ frozenBy' = Fault
                /\ UNCHANGED <<line, rendered, message_ptr, wpc>>
           ELSE /\ \E text \in (IF owned THEN ScanOutcomes(heap[start.block])
                                 ELSE OverrunOutcomes) :
                      /\ line' = [g_seq |-> debug_next.g_seq,
                                  g_full |-> debug_next.g_full,
                                  rec |-> debug_next.rec,
                                  text |-> text,
                                  chars |-> LineChars(debug_next.rec, text)]
                      /\ rendered' = rendered + 1
                      /\ message_ptr' = ScanEnd(start, text)
                /\ wpc' = "free"
                /\ UNCHANGED frozenBy
    /\ UNCHANGED <<suspended, resetCalls, asked, checks, lifecycle, app, DEBUG_LEVEL, initialised, queue_length, debug_queue,
                   debug_task, queue_full, heap, heapCorrupt, pc, debug, spaces,
                   debug_next, dropped, attempted, seen, inserted,
                   initCalls>>

\* The pointer the Worker passes to vPortFree.
FreeArg == message_ptr

\* vPortFree(ptr) releases a live block given its start.
Freeable(ptr) ==
    /\ ptr.block \in 1..Len(heap)
    /\ ptr.off = 0
    /\ heap[ptr.block].live

\* vPortFree(ptr): NULL is ignored; the start of a live block releases it;
\* any other pointer is not one pvPortMalloc returned (or was freed before):
\* no block is released, and what the allocator's lists hold from then on is
\* undefined (heapCorrupt).
vPortFree(ptr) ==
    IF ptr = NULL THEN UNCHANGED <<heap, heapCorrupt>>
    ELSE IF Freeable(ptr)
    THEN /\ heap' = [heap EXCEPT ![ptr.block].live = FALSE]
         /\ UNCHANGED heapCorrupt
    ELSE /\ heapCorrupt' = TRUE
         /\ UNCHANGED heap

\* vPortFree(message_ptr), and the end of the loop body: debug_next and
\* message_ptr are the body's locals.
WorkerFree ==
    /\ wpc = "free" /\ Running(DebugTask)
    /\ vPortFree(FreeArg)
    /\ wpc' = "wait"
    /\ debug_next' = NoItem
    /\ message_ptr' = NULL
    /\ UNCHANGED <<control, checks, lifecycle, app, DEBUG_LEVEL, initialised, queue_length, debug_queue,
                   debug_task, queue_full, pc, debug, spaces, line, rendered, dropped,
                   attempted, seen, inserted, initCalls>>

(* --------------------------- control operations ----------------------- *)

\* Mutant: debugFreeze is compiled in from level Errors on.
debugFreezeActive_Errors == DEBUG_LEVEL >= DEBUG_ERRORS

\* #if DEBUG_LEVEL >= DEBUG_FULL
debugFreezeActive == DEBUG_LEVEL >= DEBUG_FULL

\* #if DEBUG_LEVEL >= DEBUG_ERRORS
debugFreezeTaskActive == DEBUG_LEVEL >= DEBUG_ERRORS

\* #if DEBUG_LEVEL >= DEBUG_MINIMAL
debugResetActive == DEBUG_LEVEL >= DEBUG_MINIMAL

\* debugFreeze(), called by task p between two DEBUG_MESSAGE calls:
\* vTaskSuspendAll() leaves only the caller running.
debugFreeze(p) ==
    /\ pc[p] = "idle" /\ Running(p)
    /\ p \notin asked.freeze
    /\ asked' = [asked EXCEPT !.freeze = @ \cup {p}]
    /\ frozenBy' = IF debugFreezeActive THEN p ELSE frozenBy
    /\ UNCHANGED <<suspended, resetCalls, checks, program>>

\* debugFreezeTask(), called by task p while the scheduler runs:
\* vTaskSuspend(NULL) suspends the caller.
debugFreezeTask(p) ==
    /\ pc[p] = "idle" /\ Running(p) /\ frozenBy = NoTask
    /\ p \notin asked.freezeTask
    /\ asked' = [asked EXCEPT !.freezeTask = @ \cup {p}]
    /\ suspended' = IF debugFreezeTaskActive THEN suspended \cup {p} ELSE suspended
    /\ UNCHANGED <<frozenBy, resetCalls, checks, program>>

\* debugReset(), called by task p after debugInitialise has stored the
\* callback: global_reset_func(), which is taken to return.
debugReset(p) ==
    /\ initialised
    /\ pc[p] = "idle" /\ Running(p)
    /\ Len(asked.reset) < MaxResets
    /\ asked' = [asked EXCEPT !.reset = Append(@, p)]
    /\ resetCalls' = IF debugResetActive THEN Append(resetCalls, p) ELSE resetCalls
    /\ UNCHANGED <<frozenBy, suspended, checks, program>>

(* ------------------------------ next state ----------------------------- *)

Next ==
    \/ \E length \in app.lengths : debugInitialise(length)
    \/ \E p \in app.tasks : \E m \in app.messages[p] : DebugMessageFiltered(p, m[1])
    \/ \E p \in app.tasks : \E m \in app.messages[p] : DebugMessage(p, m[1], m[2])
    \/ \E p \in app.tasks : SendSwitch(p)
    \/ \E p \in app.tasks : SendFullAlloc(p)
    \/ \E p \in app.tasks : SendFullSend(p)
    \/ \E p \in app.tasks : SendDefault(p)
    \/ WorkerStart
    \/ WorkerReceive
    \/ WorkerRender
    \/ WorkerFree

\* The steps of an application that also uses the control operations.
NextControl ==
    \/ Next
    \/ \E p \in app.tasks : debugFreeze(p)
    \/ \E p \in app.tasks : debugFreezeTask(p)
    \/ \E p \in app.tasks : debugReset(p)

Spec == Init /\ [][Next]_vars

SpecBurst == InitBurst /\ [][Next]_vars

\* The Worker is a task of priority 1 that the scheduler keeps running: each
\* of its steps is taken when it stays possible.
WorkerFairness ==
    /\ WF_vars(WorkerStart)
    /\ WF_vars(WorkerReceive)
    /\ WF_vars(WorkerRender)
    /\ WF_vars(WorkerFree)

SpecLevels == InitLevels /\ [][Next]_vars

SpecControl == InitControl /\ [][NextControl]_vars

SpecReinit == InitReinit /\ [][Next]_vars

SpecRace == InitRace /\ [][Next]_vars

SpecAlloc == InitAlloc /\ [][Next]_vars

SpecFair == Init /\ [][Next]_vars /\ WorkerFairness

SpecFairLevels == InitLevels /\ [][Next]_vars /\ WorkerFairness

(* ------------------------------- claims -------------------------------- *)

Last(q) == q[Len(q)]

\* The text of the overflow sentinel.
QueueFullText == <<"Q", "u", "e", "u", "e", " ", "F", "u", "l", "l", "!">>

\* Every producer has returned, the queue is empty and the Worker waits.
Quiescent ==
    /\ \A p \in Tasks : pc[p] = "idle"
    /\ debug_queue = <<>>
    /\ wpc = "wait"

\* C1: the pointer the Worker passes to vPortFree, once the whole line has
\* been sent, is the start of the block allocated for the Record's text.
C1_FreesStartOfText ==
    wpc = "free" => FreeArg = debug_next.rec.message

\* C2: the text block of every Record that debug_send_message dropped has
\* been released once the producers have returned and the queue is drained.
C2_DroppedTextReleased ==
    Quiescent => \A b \in dropped : ~heap[b].live

\* C3: a call that finds exactly one free slot, with no insert and no
\* receive by anyone else between its switch and its xQueueSend, appends
\* exactly one item to the queue; the item is the sentinel, of type Error,
\* and does not carry the incoming Record's text.
C3_OneSlotLeftSendsSentinel ==
    [][\A p \in Tasks :
          (/\ pc[p] = "full_send" /\ pc'[p] = "idle"
           /\ spaces[p] = 1
           /\ seen[p] = <<inserted, received>>)
          => /\ Len(debug_queue') = Len(debug_queue) + 1
             /\ SubSeq(debug_queue', 1, Len(debug_queue)) = debug_queue
             /\ Last(debug_queue').g_full
             /\ Last(debug_queue').rec.type = DEBUG_TYPE_ERROR
             /\ Last(debug_queue').rec.message # debug[p].message
             /\ \A i \in 1..Len(debug_queue') :
                   debug_queue'[i].rec.message # debug[p].message]_vars

\* Only task "1" has logged and the Worker has taken nothing: the sentinel
\* at the tail of the full queue was sent by an undisturbed call.
C3_Witness ==
    /\ Len(debug_queue) = queue_length /\ queue_length > 0
    /\ Last(debug_queue).g_full
    /\ received = 0
    /\ \A i \in 1..Len(attempted) : attempted[i].g_by = "1"
    /\ pc["1"] = "idle"

\* C4: the line sent for a sentinel carries severity Error and, as its
\* message, the text "Queue Full!" and nothing else.
C4_SentinelLineText ==
    line.g_full => /\ line.rec.type = DEBUG_TYPE_ERROR
                   /\ line.text = QueueFullText

C6_TwoSlotsAppendsRecord ==
    [][\A p \in Tasks :
          (pc[p] = "send" /\ pc'[p] = "idle" /\ spaces[p] >= 2)
          => /\ debug_queue' =
                   Append(debug_queue,
                          Item([type |-> debug[p].type, task_handle |-> p,
                                message |-> debug[p].message], p, FALSE))
             /\ heap' = heap]_vars

\* C7: the step of a call that finds no free slot returns at once and leaves
\* the queue, the heap (no sentinel block is allocated) and queue_full as
\* they are.
C7_FullQueueUntouched ==
    [][\A p \in Tasks :
          (pc[p] = "switch" /\ pc'[p] # "switch" /\ uxQueueSpacesAvailable = 0)
          => /\ pc'[p] = "idle"
             /\ debug_queue' = debug_queue
             /\ inserted' = inserted
             /\ heap' = heap
             /\ queue_full' = queue_full]_vars

\* A Record was dropped although no sentinel block was ever allocated: the
\* call that dropped it found the queue full.
C7_Witness ==
    /\ dropped # {}
    /\ \A b \in 1..Len(heap) : heap[b].size # SizeofFullMessage
    /\ Len(debug_queue) = queue_length
    /\ \A p \in Tasks : pc[p] = "idle"

\* C8: the k-th line the Worker sends is the line of the k-th Record inserted
\* into the queue, and the Records waiting are those inserted after the ones
\* the Worker has taken, in insertion order.
C8_RenderedInInsertionOrder ==
    /\ rendered > 0 => line.g_seq = rendered
    /\ wpc \in {"render", "free"} => debug_next.g_seq = received
    /\ \A i \in 1..Len(debug_queue) : debug_queue[i].g_seq = received + i

\* Three lines were sent while Records of both producers were inserted.
C8_Witness ==
    /\ rendered = 3
    /\ \E i \in 1..Len(attempted) : attempted[i].g_by = "1"
    /\ \E i \in 1..Len(attempted) : attempted[i].g_by = "2"

\* The single producer has made queue_length + 1 calls and the Worker has
\* taken nothing yet.
BurstDone ==
    /\ initialised
    /\ pc["1"] = "idle"
    /\ Len(attempted) = queue_length + 1
    /\ received = 0

\* C9: after queue_length + 1 calls from one task with no dequeue, the queue
\* holds queue_length Records: the first queue_length - 1 Records attempted,
\* in order and as attempted, then one sentinel; the last two Records
\* attempted are dropped.
C9_BurstLeavesOneSentinel ==
    BurstDone =>
        /\ Len(debug_queue) = queue_length
        /\ \A i \in 1..(queue_length - 1) :
              /\ ~debug_queue[i].g_full
              /\ debug_queue[i].rec.type = attempted[i].rec.type
              /\ debug_queue[i].rec.message = attempted[i].rec.message
        /\ debug_queue[queue_length].g_full
        /\ Cardinality({i \in 1..Len(debug_queue) : debug_queue[i].g_full}) = 1
        /\ attempted[queue_length].rec.message.block \in dropped
        /\ attempted[queue_length + 1].rec.message.block \in dropped
        /\ \A i \in 1..Len(debug_queue) :
              debug_queue[i].rec.message.block \notin dropped

\* The burst is complete on the longest queue.
C9_Witness ==
    BurstDone /\ queue_length = MaxBurstLength

\* C10 as claimed: the queue never holds two sentinels next to each other.
C10_NoAdjacentSentinels ==
    \A i \in 1..(Len(debug_queue) - 1) :
        ~(debug_queue[i].g_full /\ debug_queue[i + 1].g_full)

\* C10 as amended: a step inserts at most one Record, and a sentinel is
\* inserted only by the one xQueueSend of a call whose switch read exactly
\* one free slot, which then returns.
C10_OneSentinelPerOneSlotCall ==
    [][/\ inserted' <= inserted + 1
       /\ Len(debug_queue') <= Len(debug_queue) + 1
       /\ (Len(debug_queue') > Len(debug_queue) /\ Last(debug_queue').g_full)
          => \E p \in Tasks :
                /\ pc[p] = "full_send" /\ pc'[p] = "idle"
                /\ spaces[p] = 1
                /\ Last(debug_queue').g_by = p
                /\ \A q \in Tasks \ {p} : pc'[q] = pc[q]]_vars

\* Two sentinels are queued next to each other.
C10_Witness ==
    \E i \in 1..(Len(debug_queue) - 1) :
        debug_queue[i].g_full /\ debug_queue[i + 1].g_full

\* C11: the queue never holds more than queue_length Records, and whenever it
\* is full the Record inserted last is a sentinel.
C11_LastSlotIsSentinel ==
    /\ Len(debug_queue) <= queue_length
    /\ (queue_length > 0 /\ Len(debug_queue) = queue_length)
          => Last(debug_queue).g_full

\* The part of C11 that the code keeps: the capacity is never exceeded.
C11_CapacityKept ==
    Len(debug_queue) <= queue_length

\* The text buffer of block b is (still) the text of a Record in the queue.
Queued(b) ==
    \E i \in 1..Len(debug_queue) : debug_queue[i].rec.message.block = b

\* Block b has been given back to the allocator.
Released(b) == b \in 1..Len(heap) /\ ~heap[b].live

\* C12: with a fairly scheduled Worker every inserted Record is eventually
\* dequeued and rendered, its text buffer is eventually released, and the
\* Worker returns to waiting after each Record.
C12_EveryRecordRenderedAndReleased ==
    /\ \A n \in 1..(2 * (MaxQueueLength + 1)) :
          (\E i \in 1..Len(debug_queue) : debug_queue[i].g_seq = n)
              ~> (line.g_seq = n)
    /\ \A b \in 1..(2 * (MaxQueueLength + 1)) : Queued(b) ~> Released(b)
    /\ (wpc \in {"render", "free"}) ~> (wpc = "wait")

\* One step of task p inside debug_send_message.
SendStep(p) ==
    SendSwitch(p) \/ SendFullAlloc(p) \/ SendFullSend(p) \/ SendDefault(p)

\* The most steps debug_send_message still takes from a position.
StepsLeft(at) ==
    CASE at = "switch" -> 3
      [] at = "full_alloc" -> 2
      [] at \in {"full_send", "send"} -> 1
      [] OTHER -> 0

\* C13: debug_send_message never blocks: in every state of the queue and of
\* the Worker, a task inside it can take its next step, and every such step
\* brings it nearer to the return, which it reaches after at most three steps.
C13_SendNeverBlocks ==
    \A p \in app.tasks :
        pc[p] # "idle" =>
            /\ ENABLED (SendStep(p) /\ StepsLeft(pc'[p]) < StepsLeft(pc[p]))
            /\ ~ENABLED (SendStep(p) /\ StepsLeft(pc'[p]) >= StepsLeft(pc[p]))

\* A task is about to insert while the queue is full and the Worker is not
\* taking anything out.
C13_Witness ==
    \E p \in app.tasks :
        /\ pc[p] \in {"send", "full_send"}
        /\ ~QueueHasSpace
        /\ wpc # "wait"

\* The types that are active at a level.
ActiveTypes(level) ==
    CASE level = DEBUG_ERRORS -> {DEBUG_TYPE_ERROR}
      [] level = DEBUG_WARNINGS -> {DEBUG_TYPE_WARNING, DEBUG_TYPE_ERROR}
      [] level = DEBUG_FULL -> {DEBUG_TYPE_INFO, DEBUG_TYPE_WARNING, DEBUG_TYPE_ERROR}
      [] OTHER -> {}

\* C14: a DEBUG_MESSAGE call whose type is filtered out at the level changes
\* neither the heap nor the queue nor anything the Worker sees; only calls
\* with an active type go on to allocate, and at levels Off and Minimal
\* nothing is ever allocated or enqueued.
C14_FilteredCallDoesNothing ==
    [][ /\ filtered' # filtered => UNCHANGED <<program, control>>
        /\ \A p \in app.tasks :
              (pc[p] = "idle" /\ pc'[p] # "idle")
                  => debug'[p].type \in ActiveTypes(DEBUG_LEVEL)
        /\ (heap' # heap \/ debug_queue' # debug_queue \/ attempted' # attempted)
              => ActiveTypes(DEBUG_LEVEL) # {} ]_vars

\* Three filtered calls, the last with an Info message, at level Warnings and
\* queue_length 4: nothing allocated, the queue empty, no character sent.
C14_Witness ==
    /\ DEBUG_LEVEL = DEBUG_WARNINGS /\ queue_length = LevelQueueLength
    /\ filtered = 3
    /\ lastCheck = [type |-> DEBUG_TYPE_INFO, result |-> FALSE]
    /\ heap = <<>> /\ debug_queue = <<>> /\ attempted = <<>>
    /\ wpc = "wait" /\ line = NoLine

C16_AllocationFailureIsSilent ==
    /\ frozenBy # Fault
    /\ \A p \in app.tasks : pc[p] # "idle" => debug[p].message # NULL
    /\ \A i \in 1..Len(debug_queue) : debug_queue[i].rec.message # NULL
    /\ wpc \in {"render", "free"} => debug_next.rec.message # NULL

\* C17: the buffer DEBUG_MESSAGE allocates for a text of length L has size
\* L + 1: the text and its terminator are written inside it, and the Worker's
\* scan of it ends inside it.
C17_BufferHoldsTextAndTerminator ==
    /\ \A i \in 1..Len(attempted) :
          LET b == attempted[i].rec.message.block
          IN  b # 0 =>
                /\ heap[b].over = 0
                /\ HasNul(heap[b].bytes)
                /\ heap[b].size = Len(UpToNul(heap[b].bytes)) + 1
    /\ (wpc = "free" /\ ~debug_next.g_full /\ message_ptr.block # 0)
          => message_ptr.off < heap[message_ptr.block].size

RecordText(l) ==
    IF l.g_full THEN QueueFullText ELSE heap[l.rec.message.block].bytes

\* C19: the line the Worker sends for a dequeued Record is its type, " - ",
\* the name of the task captured in it, " - ", the characters of its text in
\* order and unmodified, and a line feed.
C19_LineLayout ==
    line # NoLine =>
        line.chars = <<line.rec.type, " ", "-", " ">>
                        \o pcTaskGetName(line.rec.task_handle)
                        \o <<" ", "-", " ">>
                        \o RecordText(line)
                        \o <<"\n">>

\* C20, the gating: the scheduler is suspended exactly when debugFreeze was
\* called at level Full; the suspended tasks are exactly the callers of
\* debugFreezeTask at levels Errors and above; the reset callback has run once
\* for each debugReset call, in the caller's context, at levels Minimal and
\* above, and never at Off.
C20_Gating ==
    /\ frozenBy = (IF DEBUG_LEVEL = DEBUG_FULL /\ asked.freeze # {}
                   THEN CHOOSE t \in asked.freeze : TRUE ELSE NoTask)
    /\ (frozenBy # NoTask => asked.freeze = {frozenBy})
    /\ suspended = (IF DEBUG_LEVEL \in {DEBUG_ERRORS, DEBUG_WARNINGS, DEBUG_FULL}
                    THEN asked.freezeTask ELSE {})
    /\ resetCalls = (IF DEBUG_LEVEL = DEBUG_OFF THEN <<>> ELSE asked.reset)

\* C20, the effect: a control operation changes neither the queue nor any
\* other state of the pipeline; once all tasks are suspended only the caller
\* of debugFreeze takes steps, and a task that suspended itself takes none
\* while the others go on.
C20_Effect ==
    /\ asked' # asked => UNCHANGED program
    /\ \A q \in Tasks :
          (q \in suspended \/ frozenBy \notin {NoTask, q}) => pc'[q] = pc[q]
    /\ frozenBy # NoTask =>
          /\ wpc # "none" => wpc' = wpc
          /\ UNCHANGED <<debug_next, message_ptr, line, rendered, initCalls>>

\* C20: the control operations are gated by level, act at once, and leave
\* the queue alone.
C20_ControlOperations ==
    []C20_Gating /\ [][C20_Effect]_vars

\* At level Errors, with Records in the queue: task "1" has suspended itself,
\* task "2" has called debugFreeze and debugReset and, still running, is
\* inside a DEBUG_MESSAGE.
C20_Witness ==
    /\ DEBUG_LEVEL = DEBUG_ERRORS
    /\ asked = [freeze |-> {"2"}, freezeTask |-> {"1"}, reset |-> <<"2">>]
    /\ suspended = {"1"} /\ frozenBy = NoTask /\ resetCalls = <<"2">>
    /\ debug_queue # <<>>
    /\ pc["2"] # "idle"

\* At level Full a task has suspended all others, the Worker with a Record
\* still in the queue.
C20_WitnessFull ==
    /\ DEBUG_LEVEL = DEBUG_FULL /\ frozenBy = "1"
    /\ debug_queue # <<>>

\* C21: at most one debug task and one queue are ever created, the callbacks
\* stored are those of the first debugInitialise call, and no queue with its
\* Records is replaced.
C21_WorkerIsSingleton ==
    /\ created.tasks <= 1
    /\ created.queues <= 1
    /\ global_funcs <= 1
    /\ orphaned = <<>>

\* The text buffers of the Records that are queued or held by the Worker,
\* one entry for each Record.
ReferencedBuffers ==
    [i \in 1..Len(debug_queue) |-> debug_queue[i].rec.message]
        \o (IF wpc \in {"render", "free"} THEN <<debug_next.rec.message>> ELSE <<>>)

\* The tasks that have stored a fresh buffer in queue_full.message and have
\* not yet sent queue_full.
SentinelPending == {p \in app.tasks : pc[p] = "full_send"}

\* C22: no text buffer belongs to two Records that are queued or being
\* rendered, and a sentinel buffer stored in queue_full.message is sent before
\* another task stores its own there.
C22_SentinelBufferNotShared ==
    /\ \A i, j \in 1..Len(ReferencedBuffers) :
          i # j => ReferencedBuffers[i] # ReferencedBuffers[j]
    /\ Cardinality(SentinelPending) <= 1

\* C23: every xQueueSend that debug_send_message issues, for a Record or for
\* the sentinel, inserts its item: the free slot the switch counted is still
\* there.
C23_EveryInsertSucceeds ==
    [][ \A p \in app.tasks :
           (pc[p] \in {"send", "full_send"} /\ pc'[p] = "idle")
               => /\ inserted' = inserted + 1
                  /\ Len(debug_queue') = Len(debug_queue) + 1
                  /\ Last(debug_queue').g_by = p ]_vars

====
